---- MODULE Spec2Model ----
(***************************************************************************)
(* Schema-constrained decoding of receipts (donut-receipt).                *)
(*                                                                         *)
(* The module models src/src/domain: the tag list of Receipt, the          *)
(* tokenizer vocabulary as Model.__init__ extends it, the per-step mask of *)
(* InferenceLogitsProcessor inside the greedy generation loop that         *)
(* Model.inference starts, the label encoding of Dataset and the           *)
(* post-processing of the decoded text.                                    *)
(*                                                                         *)
(* Token ids are 0-based as in the tokenizer: the token with id i is       *)
(* vocab[i + 1].  Scores are fixed-point integers; NegInf stands for       *)
(* -float("inf").                                                          *)
(***************************************************************************)
EXTENDS Integers, Sequences, FiniteSets, TLC

VARIABLES
    vocab,                  \* tokenizer vocabulary: sequence of token texts
    special_token_ids,      \* generation: the ids the logits processor tracks
    input_ids,              \* generation: one id sequence per batch row
    scores,                 \* generation: one score vector per batch row
    unfinished_sequences,   \* generation: 1 while the row has not ended
    pc,                     \* position in the running operation
    error,                  \* exception that left the mask call, or "none"
    max_length,             \* config.decoder.max_length
    target,                 \* label encoding: token ids of the target string
    labels,                 \* label encoding: the label tensor
    receipt,                \* serialization: the Receipt
    xml,                    \* serialization: Receipt.xml
    decoded,                \* post-processing: one decoded sequence, by character
    prediction,             \* post-processing: the prediction made of it
    again,                  \* post-processing: the prediction processed once more
    additional_special_tokens,  \* tokenizer: the special tokens added to it
    resize_calls,           \* calls of decoder.resize_token_embeddings
    predictions,            \* evaluation: the predictions of a batch
    targets,                \* evaluation: the answers of the batch
    score_list,             \* evaluation: the scores of the pairs of the batch
    validation_step_scores  \* evaluation: the average scores appended so far

genVars == <<special_token_ids, input_ids, scores, unfinished_sequences, error>>

dataVars == <<target, labels, receipt, xml>>

textVars == <<decoded, prediction, again>>

tokVars == <<additional_special_tokens, resize_calls>>

evalVars == <<predictions, targets, score_list, validation_step_scores>>

vars == <<vocab, pc, max_length, genVars, dataVars, textVars, tokVars, evalVars>>

(***************************************************************************)
(* Bounds of the model.                                                    *)
(***************************************************************************)
BatchSize == 2          \* rows of pixel_values handed to generate
MaxLength == 9          \* stands for config.decoder.max_length
NumTextIds == 1         \* free-text entries of the base vocabulary
MaxFill == 1            \* free-text or padding ids the live rows may select
MaxTokens == 4          \* token count of a target string
MaxLabelLength == 3     \* values of max_length the label encoder is run with
MaxPieces == 4          \* token texts joined in a decoded sequence
MaxTextLen == 2         \* characters of a prediction or an answer that is scored
MaxRowLen == 2          \* ids of a row the mask is called on directly

(***************************************************************************)
(* Receipt.get_xml_tags.  Python joins the adjacent literals "</s_total>"  *)
(* and "</s>" of the last list element into one string.                    *)
(***************************************************************************)
get_xml_tags ==
    << "<s>",
       "<s_company>",
       "</s_company>",
       "<s_date>",
       "</s_date>",
       "<s_address>",
       "</s_address>",
       "<s_total>",
       "</s_total>" \o "</s>" >>

(***************************************************************************)
(* The tokenizer.                                                          *)
(***************************************************************************)
Range(s) == { s[i] : i \in DOMAIN s }

TextTokens == << "a", "b", "c", "d" >>

\* XLM-RoBERTa layout: <s> = 0, <pad> = 1, </s> = 2, <unk> = 3, then text.
BaseVocab == << "<s>", "<pad>", "</s>", "<unk>" >> \o SubSeq(TextTokens, 1, NumTextIds)

\* the named special tokens of the tokenizer as loaded
special_tokens_map == { "<s>", "<pad>", "</s>", "<unk>" }

all_special_tokens == special_tokens_map \cup Range(additional_special_tokens)

pad_token == "<pad>"

convert_tokens_to_ids(v, tok) ==
    IF \E i \in DOMAIN v : v[i] = tok
    THEN (CHOOSE i \in DOMAIN v : v[i] = tok) - 1
    ELSE (CHOOSE i \in DOMAIN v : v[i] = "<unk>") - 1

convert_ids_to_tokens(v, id) == v[id + 1]

pad_token_id(v) == convert_tokens_to_ids(v, pad_token)

unk_token_id(v) == convert_tokens_to_ids(v, "<unk>")

\* tokenizer.add_special_tokens: appends the tokens it does not hold yet, in
\* order, and returns the extended vocabulary; the count is the growth.
RECURSIVE add_tokens(_, _)
add_tokens(v, toks) ==
    IF toks = << >> THEN v
    ELSE add_tokens(IF Head(toks) \in Range(v) THEN v ELSE Append(v, Head(toks)),
                    Tail(toks))

\* Model.__init__: the tags that are not special tokens yet are registered.
NotYetSpecial(tok) == tok \notin all_special_tokens

RegisterTags(v) == add_tokens(v, SelectSeq(get_xml_tags, NotYetSpecial))

newly_added_num(v) == Len(RegisterTags(v)) - Len(v)

\* the additional special tokens add_special_tokens leaves: the list it was
\* given; given an empty list, the library either keeps the ones it holds or
\* replaces them by the empty list, depending on its version
SpecialsAfter(to_add) ==
    IF to_add # << >> THEN { to_add } ELSE { additional_special_tokens, << >> }

\* Model.__init__: ids read from the tokenizer before the tags are added.
bos_token_id == convert_tokens_to_ids(BaseVocab, "<s>")

eos_token_id == convert_tokens_to_ids(BaseVocab, "</s>")

decoder_start_token_id == bos_token_id

Vocab(v) == 0..(Len(v) - 1)

(***************************************************************************)
(* InferenceLogitsProcessor.                                               *)
(***************************************************************************)
special_tokens == get_xml_tags

\* __init__: the ids of the special tokens, read from the tokenizer
InitSpecialTokenIds(v) ==
    [i \in DOMAIN special_tokens |-> convert_tokens_to_ids(v, special_tokens[i])]

NoTag == "StopIteration"

\* variant: the token of the last id of the row, special or not
_last_tag_final(ids) ==
    IF ids = << >> THEN NoTag ELSE convert_ids_to_tokens(vocab, ids[Len(ids)])

\* _last_tag: the token of the last id of the row that is a special id;
\* next() without a default raises StopIteration when there is none.
_last_tag(ids) ==
    LET special == Range(special_token_ids)
        hits == { k \in DOMAIN ids : ids[k] \in special }
    IN  IF hits = {} THEN NoTag
        ELSE convert_ids_to_tokens(vocab, ids[CHOOSE k \in hits : \A m \in hits : m <= k])

\* variant: open(company) is followed by open(date)
CandidateTable_skip ==
    [ t \in { "<s>", "<s_company>", "</s_company>", "<s_date>", "</s_date>",
              "<s_address>", "</s_address>", "<s_total>" } |->
        CASE t = "<s>"          -> << "<s_company>" >>
          [] t = "<s_company>"  -> << "<s_date>" >>
          [] t = "</s_company>" -> << "<s_date>" >>
          [] t = "<s_date>"     -> << "</s_date>" >>
          [] t = "</s_date>"    -> << "<s_address>" >>
          [] t = "<s_address>"  -> << "</s_address>" >>
          [] t = "</s_address>" -> << "<s_total>" >>
          [] t = "<s_total>"    -> << "</s>" >> ]

CandidateTable ==
    [ t \in { "<s>", "<s_company>", "</s_company>", "<s_date>", "</s_date>",
              "<s_address>", "</s_address>", "<s_total>" } |->
        CASE t = "<s>"          -> << "<s_company>" >>
          [] t = "<s_company>"  -> << "</s_company>" >>
          [] t = "</s_company>" -> << "<s_date>" >>
          [] t = "<s_date>"     -> << "</s_date>" >>
          [] t = "</s_date>"    -> << "<s_address>" >>
          [] t = "<s_address>"  -> << "</s_address>" >>
          [] t = "</s_address>" -> << "<s_total>" >>
          [] t = "<s_total>"    -> << "</s>" >> ]

HasCandidates(last_tag) == last_tag \in DOMAIN CandidateTable

\* _candidate_tags: a dict lookup, KeyError for a tag that is no key.
_candidate_tags(last_tag) == CandidateTable[last_tag]

NegInf == -1000000

\* variant: the test of the comprehension is `in candidates`
forbidden_inverted(ids) ==
    LET candidates == Range(CandidateTable[_last_tag(ids)])
    IN  { token_id \in Range(special_token_ids) :
            convert_ids_to_tokens(vocab, token_id) \in candidates }

\* the ids __call__ collects in `forbidden` for one row
forbidden(ids) ==
    LET candidates == Range(_candidate_tags(_last_tag(ids)))
    IN  { token_id \in Range(special_token_ids) :
            convert_ids_to_tokens(vocab, token_id) \notin candidates }

\* the exception one row of __call__ raises, "none" when it raises nothing
RowError(ids) ==
    LET last_tag_label == _last_tag(ids)
    IN  IF last_tag_label = NoTag THEN "StopIteration"
        ELSE IF ~HasCandidates(last_tag_label) THEN "KeyError"
        ELSE "none"

\* variant: every id whose token is no candidate is masked, tracked or not
MaskRow_all(ids, row_scores) ==
    LET candidates == Range(CandidateTable[_last_tag(ids)])
    IN  [ t \in DOMAIN row_scores |->
            IF convert_ids_to_tokens(vocab, t) \notin candidates THEN NegInf
            ELSE row_scores[t] ]

MaskRow(ids, row_scores) ==
    LET masked == forbidden(ids)
    IN  [ t \in DOMAIN row_scores |->
            IF t \in masked THEN NegInf ELSE row_scores[t] ]

(***************************************************************************)
(* The processors generate runs on the scores of a step, in list order:    *)
(* the bad-words processor built from bad_words_ids, then the two of the   *)
(* logits_processor argument, InferenceLogitsProcessor first.              *)
(***************************************************************************)
\* bad_words_ids = [[unk_token_id]]: the unknown token is never selectable
NoBadWordsRow(v, row_scores) ==
    LET bad == unk_token_id(v)
    IN  [ t \in DOMAIN row_scores |-> IF t = bad THEN NegInf ELSE row_scores[t] ]

\* RepetitionPenaltyLogitsProcessor(1.06) in fixed point: a negative score of
\* an id of the row is multiplied by 1.06, any other is divided by it.
PenaltyNum == 106

PenaltyDen == 100

Penalised(s) ==
    IF s = NegInf THEN NegInf
    ELSE IF s < 0 THEN -(((-s) * PenaltyNum) \div PenaltyDen)
    ELSE (s * PenaltyDen) \div PenaltyNum

RepetitionPenaltyRow(ids, row_scores) ==
    LET seen == Range(ids)
    IN  [ t \in DOMAIN row_scores |->
            IF t \in seen THEN Penalised(row_scores[t]) ELSE row_scores[t] ]

\* argmax: the first index that holds the maximal score
ArgMax(row_scores) ==
    LET best == CHOOSE m \in Range(row_scores) : \A u \in DOMAIN row_scores : row_scores[u] <= m
        at == { t \in DOMAIN row_scores : row_scores[t] = best }
    IN  CHOOSE t \in at : \A u \in at : t <= u

(***************************************************************************)
(* Raw scores of the decoder: one id is hot, one is warm, the rest cold.   *)
(* The values are multiples of 53 (and the cold one of 50) so that the     *)
(* penalty of 1.06 is exact; a penalised hot score falls below a warm one. *)
(***************************************************************************)
Hot == 20 * 53

Warm == 19 * 53

Cold == -(50 * 53)

RawRow(v, h, w) ==
    [ t \in Vocab(v) |-> IF t = h THEN Hot ELSE IF t = w THEN Warm ELSE Cold ]

WarmIds(v) == { eos_token_id, convert_tokens_to_ids(v, TextTokens[1]) }

RawRows(v) == { RawRow(v, h, w) : h \in Vocab(v), w \in WarmIds(v) }

Rows == DOMAIN input_ids

\* what the three processors leave of a raw row
Processed(v, ids, raw) ==
    RepetitionPenaltyRow(ids, MaskRow(ids, NoBadWordsRow(v, raw)))

IsFill(v, t) == t \notin Range(special_token_ids) /\ t # eos_token_id

\* free-text and padding ids the row selected while it was live
FillCount(v, ids) ==
    Cardinality({ k \in DOMAIN ids :
                    /\ IsFill(v, ids[k])
                    /\ \A m \in 1..(k - 1) : ids[m] # eos_token_id })

RECURSIVE BatchFill(_, _)
BatchFill(v, batch) ==
    IF batch = << >> THEN 0
    ELSE FillCount(v, Head(batch)) + BatchFill(v, Tail(batch))

\* bound of the model: the live rows of a batch select at most MaxFill
\* free-text or padding ids before the step
WithinFill(v, batch, ids, raw) ==
    \/ RowError(ids) # "none"
    \/ ~IsFill(v, ArgMax(Processed(v, ids, raw)))
    \/ BatchFill(v, batch) < MaxFill

(***************************************************************************)
(* State machine.                                                          *)
(***************************************************************************)
NoGeneration ==
    /\ special_token_ids = << >>
    /\ input_ids = << >>
    /\ scores = << >>
    /\ unfinished_sequences = << >>
    /\ error = "none"

NoData ==
    /\ target = << >>
    /\ labels = << >>
    /\ receipt = [company |-> "", date |-> "", address |-> "", total |-> ""]
    /\ xml = ""

NoText ==
    /\ decoded = << >>
    /\ prediction = << >>
    /\ again = << >>

NoEval ==
    /\ predictions = << >>
    /\ targets = << >>
    /\ score_list = << >>
    /\ validation_step_scores = << >>

\* the tokenizer as loaded: no tag is registered yet
Loaded ==
    /\ vocab = BaseVocab
    /\ additional_special_tokens = << >>
    /\ resize_calls = 0

\* the tokenizer once Model.__init__ has run on the tokenizer as loaded
Constructed ==
    /\ additional_special_tokens = SelectSeq(get_xml_tags, LAMBDA tok : tok \notin special_tokens_map)
    /\ vocab = add_tokens(BaseVocab, additional_special_tokens)
    /\ resize_calls = 1

Init ==
    /\ Loaded
    /\ NoGeneration
    /\ pc = "construct"
    /\ max_length = 0
    /\ NoData
    /\ NoText
    /\ NoEval

\* Model.__init__
ModelInit ==
    /\ pc = "construct"
    /\ max_length' = MaxLength
    /\ vocab' = RegisterTags(vocab)
    /\ additional_special_tokens' \in SpecialsAfter(SelectSeq(get_xml_tags, NotYetSpecial))
    /\ resize_calls' = IF newly_added_num(vocab) > 0 THEN resize_calls + 1 ELSE resize_calls
    /\ pc' = "idle"
    /\ UNCHANGED <<genVars, dataVars, textVars, evalVars>>

\* Model.inference builds the logits processor and calls generate: every row
\* starts with the start id
Generate ==
    /\ pc \in { "idle", "done" }
    /\ special_token_ids' = InitSpecialTokenIds(vocab)
    /\ \E batch \in 1..BatchSize :
        /\ input_ids' = [r \in 1..batch |-> << decoder_start_token_id >>]
        /\ unfinished_sequences' = [r \in 1..batch |-> 1]
    /\ scores' = << >>
    /\ pc' = "forward"
    /\ UNCHANGED <<vocab, error, max_length, dataVars, textVars, tokVars, evalVars>>

\* the raw rows the bounds of the model admit for row r; the scores of a
\* finished row are never selected from, it is given the first raw row
RawFor(r) ==
    IF unfinished_sequences[r] = 1
    THEN { x \in RawRows(vocab) : WithinFill(vocab, input_ids, input_ids[r], x) }
    ELSE { RawRow(vocab, pad_token_id(vocab), eos_token_id) }

\* the raw scores of a batch of n rows
RECURSIVE RawBatches(_)
RawBatches(n) ==
    IF n = 0 THEN { << >> }
    ELSE { Append(b, x) : b \in RawBatches(n - 1), x \in RawFor(n) }

\* the decoder's forward pass: raw scores of the step
ForwardPass ==
    /\ pc = "forward"
    /\ scores' \in RawBatches(Len(input_ids))
    /\ pc' = "bad_words"
    /\ UNCHANGED <<vocab, special_token_ids, input_ids, unfinished_sequences, error, max_length, dataVars, textVars, tokVars, evalVars>>

NoBadWords ==
    /\ pc = "bad_words"
    /\ scores' = [r \in Rows |-> NoBadWordsRow(vocab, scores[r])]
    /\ pc' = "mask"
    /\ UNCHANGED <<vocab, special_token_ids, input_ids, unfinished_sequences, error, max_length, dataVars, textVars, tokVars, evalVars>>

\* InferenceLogitsProcessor.__call__: rows in order, in place; the first row
\* that raises ends the call and leaves the rows before it masked.
FirstRaising ==
    IF \E r \in Rows : RowError(input_ids[r]) # "none"
    THEN CHOOSE r \in Rows :
            /\ RowError(input_ids[r]) # "none"
            /\ \A q \in 1..(r - 1) : RowError(input_ids[q]) = "none"
    ELSE Len(input_ids) + 1

\* the rows of a batch of n rows in the order of range(n)
RowOrder(n) == [r \in 1..n |-> r]

\* variant: every row is masked by the last tag of the first row of the batch
RECURSIVE call_rows_shared(_, _, _)
call_rows_shared(order, batch_ids, batch_scores) ==
    IF order = << >> THEN batch_scores
    ELSE IF RowError(batch_ids[Head(order)]) # "none" THEN batch_scores
    ELSE call_rows_shared(Tail(order), batch_ids,
                          [batch_scores EXCEPT ![Head(order)] = MaskRow(batch_ids[1], @)])

\* the loop of __call__ over the rows in the given order: each row is
\* masked in place; a row that raises ends the loop
RECURSIVE call_rows(_, _, _)
call_rows(order, batch_ids, batch_scores) ==
    IF order = << >> THEN batch_scores
    ELSE IF RowError(batch_ids[Head(order)]) # "none" THEN batch_scores
    ELSE call_rows(Tail(order), batch_ids,
                   [batch_scores EXCEPT ![Head(order)] = MaskRow(batch_ids[Head(order)], @)])

\* variant: a row that raises is left unmasked and the call returns
Mask_default ==
    /\ pc = "mask"
    /\ scores' = [r \in Rows |->
                    IF RowError(input_ids[r]) = "none"
                    THEN MaskRow(input_ids[r], scores[r])
                    ELSE scores[r]]
    /\ error' = error
    /\ pc' = "penalty"
    /\ UNCHANGED <<vocab, special_token_ids, input_ids, unfinished_sequences, max_length, dataVars, textVars, tokVars, evalVars>>

Mask ==
    /\ pc = "mask"
    /\ scores' = call_rows(RowOrder(Len(input_ids)), input_ids, scores)
    /\ IF FirstRaising \in Rows
       THEN /\ error' = RowError(input_ids[FirstRaising])
            /\ pc' = "raised"
       ELSE /\ error' = error
            /\ pc' = "penalty"
    /\ UNCHANGED <<vocab, special_token_ids, input_ids, unfinished_sequences, max_length, dataVars, textVars, tokVars, evalVars>>

RepetitionPenalty ==
    /\ pc = "penalty"
    /\ scores' = [r \in Rows |-> RepetitionPenaltyRow(input_ids[r], scores[r])]
    /\ pc' = "select"
    /\ UNCHANGED <<vocab, special_token_ids, input_ids, unfinished_sequences, error, max_length, dataVars, textVars, tokVars, evalVars>>

\* greedy selection: a finished row receives the padding id
next_tokens(r) ==
    IF unfinished_sequences[r] = 1 THEN ArgMax(scores[r]) ELSE pad_token_id(vocab)

\* variant: the length of the rows does not end a run
Select_unbounded ==
    /\ pc = "select"
    /\ input_ids' = [r \in Rows |-> Append(input_ids[r], next_tokens(r))]
    /\ unfinished_sequences' =
          [r \in Rows |->
              IF next_tokens(r) = eos_token_id THEN 0 ELSE unfinished_sequences[r]]
    /\ scores' = << >>
    /\ pc' = IF \A r \in Rows : unfinished_sequences'[r] = 0 THEN "done" ELSE "forward"
    /\ UNCHANGED <<vocab, special_token_ids, error, max_length, dataVars, textVars, tokVars, evalVars>>

Select ==
    /\ pc = "select"
    /\ input_ids' = [r \in Rows |-> Append(input_ids[r], next_tokens(r))]
    /\ unfinished_sequences' =
          [r \in Rows |->
              IF \/ next_tokens(r) = eos_token_id
                 \/ Len(input_ids[r]) + 1 >= max_length
              THEN 0 ELSE unfinished_sequences[r]]
    /\ scores' = << >>
    /\ pc' = IF \A r \in Rows : unfinished_sequences'[r] = 0 THEN "done" ELSE "forward"
    /\ UNCHANGED <<vocab, special_token_ids, error, max_length, dataVars, textVars, tokVars, evalVars>>

Next ==
    \/ ModelInit
    \/ Generate
    \/ ForwardPass
    \/ NoBadWords
    \/ Mask
    \/ RepetitionPenalty
    \/ Select

Spec == Init /\ [][Next]_vars

\* the positions inside a call of generate
RunPositions == { "forward", "bad_words", "mask", "penalty", "select" }

\* a pass of a step of generate is taken: the position moves on
Advance ==
    /\ pc \in RunPositions
    /\ pc' \in RunPositions \cup { "raised", "done" }

\* generate is a loop that runs on its own: once it is called, the pass it
\* has reached is taken
SpecRun == Spec /\ WF_pc(Advance)

(***************************************************************************)
(* InferenceLogitsProcessor.__call__ on the batches it can be handed: the  *)
(* rows of input_ids are of one length and hold any ids.                   *)
(***************************************************************************)
\* ids the rows are drawn from: start, end, free text, a field tag and the
\* token that holds close(total)
MaskIds(v) ==
    { bos_token_id, eos_token_id,
      convert_tokens_to_ids(v, TextTokens[1]),
      convert_tokens_to_ids(v, "<s_company>"),
      convert_tokens_to_ids(v, get_xml_tags[Len(get_xml_tags)]) }

\* the sequences of length n of elements of S
RECURSIVE SeqsOf(_, _)
SeqsOf(S, n) ==
    IF n = 0 THEN { << >> }
    ELSE { Append(q, x) : q \in SeqsOf(S, n - 1), x \in S }

MaskRaws(v) ==
    { RawRow(v, h, eos_token_id) :
        h \in { convert_tokens_to_ids(v, TextTokens[1]), convert_tokens_to_ids(v, "<s_date>") } }

InitMask ==
    /\ Constructed
    /\ special_token_ids = InitSpecialTokenIds(vocab)
    /\ \E n \in 1..BatchSize, len \in 0..MaxRowLen :
          /\ input_ids \in [1..n -> SeqsOf(MaskIds(vocab), len)]
          /\ scores \in [1..n -> MaskRaws(vocab)]
          /\ unfinished_sequences = [r \in 1..n |-> 1]
    /\ error = "none"
    /\ pc = "mask"
    /\ max_length = MaxLength
    /\ NoData
    /\ NoText
    /\ NoEval

NextMask == Mask

SpecMask == InitMask /\ [][NextMask]_vars

(***************************************************************************)
(* Model.__init__ on tokenizers as they can be loaded: the base vocabulary *)
(* followed by tokens an earlier run saved with it, which the tokenizer    *)
(* holds as additional special tokens or as plain added tokens.  A further *)
(* Model can be built on the processor of an earlier one.                  *)
(***************************************************************************)
SavedTokens == Tail(get_xml_tags) \o << "</s_total>" >>

\* the subsequences of a sequence
RECURSIVE SubSeqs(_)
SubSeqs(q) ==
    IF q = << >> THEN { << >> }
    ELSE LET rest == SubSeqs(Tail(q))
         IN  rest \cup { << Head(q) >> \o x : x \in rest }

InitRegister ==
    /\ \E saved \in SubSeqs(SavedTokens) :
          /\ vocab = BaseVocab \o saved
          /\ additional_special_tokens \in { << >>, saved }
    /\ resize_calls = 0
    /\ pc = "construct"
    /\ max_length = 0
    /\ NoGeneration
    /\ NoData
    /\ NoText
    /\ NoEval

\* a further Model is built on the processor
NewModel ==
    /\ pc = "idle"
    /\ pc' = "construct"
    /\ UNCHANGED <<vocab, max_length, genVars, dataVars, textVars, tokVars, evalVars>>

NextRegister ==
    \/ ModelInit
    \/ NewModel

SpecRegister == InitRegister /\ [][NextRegister]_vars

(***************************************************************************)
(* Dataset._target_string_to_tensor.  The tokenizer is called with         *)
(* add_special_tokens=False, truncation=True and padding="max_length":     *)
(* the ids of the target are cut on the right to max_length and filled on  *)
(* the right with the padding id; the label tensor is a copy in which      *)
(* every padding id is replaced by ignore_id.                              *)
(***************************************************************************)
ignore_id == -100

\* variant: an over-length target keeps its last ids
Truncated_left(ids, length) ==
    IF Len(ids) > length THEN SubSeq(ids, Len(ids) - length + 1, Len(ids)) ELSE ids

Truncated(ids, length) ==
    IF Len(ids) > length THEN SubSeq(ids, 1, length) ELSE ids

Padded(v, ids, length) ==
    ids \o [k \in 1..(length - Len(ids)) |-> pad_token_id(v)]

tokenizer_input_ids(v, ids, length) == Padded(v, Truncated(ids, length), length)

_target_string_to_tensor(v, ids, length) ==
    LET input == tokenizer_input_ids(v, ids, length)
    IN  [k \in DOMAIN input |-> IF input[k] = pad_token_id(v) THEN ignore_id ELSE input[k]]

\* ids a tokenized target is drawn from: padding, end, free text, one tag
TargetIds(v) ==
    { pad_token_id(v), eos_token_id,
      convert_tokens_to_ids(v, TextTokens[1]),
      convert_tokens_to_ids(v, "<s_company>") }

RECURSIVE SeqsUpTo(_, _)
SeqsUpTo(S, n) ==
    IF n = 0 THEN { << >> }
    ELSE LET shorter == SeqsUpTo(S, n - 1)
         IN  shorter \cup { Append(q, x) : q \in { q \in shorter : Len(q) = n - 1 }, x \in S }

InitLabel ==
    /\ Constructed
    /\ NoEval
    /\ pc = "item"
    /\ max_length \in 1..MaxLabelLength
    /\ target \in SeqsUpTo(TargetIds(vocab), MaxTokens)
    /\ labels = << >>
    /\ receipt = [company |-> "", date |-> "", address |-> "", total |-> ""]
    /\ xml = ""
    /\ NoGeneration
    /\ NoText

TargetToTensor ==
    /\ pc = "item"
    /\ labels' = _target_string_to_tensor(vocab, target, max_length)
    /\ pc' = "encoded"
    /\ UNCHANGED <<vocab, max_length, target, receipt, xml, genVars, textVars, tokVars, evalVars>>

NextLabel == TargetToTensor

SpecLabel == InitLabel /\ [][NextLabel]_vars

(***************************************************************************)
(* Receipt.xml: the f-string of the property, literal by literal.          *)
(***************************************************************************)
\* variant: the address comes before the date
Receipt_xml_swapped(r) ==
    "<s>"
    \o "<s_company>" \o r.company \o "</s_company>"
    \o "<s_address>" \o r.address \o "</s_address>"
    \o "<s_date>" \o r.date \o "</s_date>"
    \o "<s_total>" \o r.total \o "</s_total>"
    \o "</s>"

Receipt_xml(r) ==
    "<s>"
    \o "<s_company>" \o r.company \o "</s_company>"
    \o "<s_date>" \o r.date \o "</s_date>"
    \o "<s_address>" \o r.address \o "</s_address>"
    \o "<s_total>" \o r.total \o "</s_total>"
    \o "</s>"

FieldValues == { "", "ACME", "2024-01-01", "10.00", "</s>", " " }

\* the literals and the field values the f-string of Receipt.xml joins
xml_pieces(r) ==
    << "<s>",
       "<s_company>", r.company, "</s_company>",
       "<s_date>", r.date, "</s_date>",
       "<s_address>", r.address, "</s_address>",
       "<s_total>", r.total, "</s_total>",
       "</s>" >>

\* the tokenizer on a text given by its pieces: the text is first split at
\* the special and added tokens of the vocabulary, the longest one that
\* starts at a position being taken, and what lies between them becomes
\* free-text ids (one id here for a text that is not empty)
RECURSIVE tokenize(_, _)
tokenize(v, pieces) ==
    IF pieces = << >> THEN << >>
    ELSE IF Len(pieces) >= 2 /\ (pieces[1] \o pieces[2]) \in Range(v)
         THEN << convert_tokens_to_ids(v, pieces[1] \o pieces[2]) >>
              \o tokenize(v, SubSeq(pieces, 3, Len(pieces)))
    ELSE IF pieces[1] \in Range(v)
         THEN << convert_tokens_to_ids(v, pieces[1]) >> \o tokenize(v, Tail(pieces))
    ELSE IF pieces[1] = ""
         THEN tokenize(v, Tail(pieces))
    ELSE << convert_tokens_to_ids(v, TextTokens[1]) >> \o tokenize(v, Tail(pieces))

InitXml ==
    /\ Constructed
    /\ NoEval
    /\ pc = "receipt"
    /\ max_length = MaxLength
    /\ receipt \in [company : FieldValues, date : FieldValues,
                    address : FieldValues, total : FieldValues]
    /\ xml = ""
    /\ target = << >>
    /\ labels = << >>
    /\ special_token_ids = InitSpecialTokenIds(vocab)
    /\ input_ids = << >>
    /\ scores = << >>
    /\ unfinished_sequences = << >>
    /\ error = "none"
    /\ NoText

\* Dataset.__getitem__ reads receipt.xml and encodes it: target holds the
\* ids of the whole string, labels the label tensor made of them
ReadXml ==
    /\ pc = "receipt"
    /\ xml' = Receipt_xml(receipt)
    /\ target' = tokenize(vocab, xml_pieces(receipt))
    /\ labels' = _target_string_to_tensor(vocab, target', max_length)
    /\ pc' = "serialized"
    /\ UNCHANGED <<vocab, max_length, receipt, genVars, textVars, tokVars, evalVars>>

NextXml == ReadXml

SpecXml == InitXml /\ [][NextXml]_vars

(***************************************************************************)
(* Model.inference, after generate: every decoded sequence loses the text  *)
(* of the padding token and then goes through                              *)
(*     re.sub(r"(<s_[a-zA-Z0-9_]+>)\s", r"\1", seq_).                      *)
(* Texts are sequences of characters here.                                 *)
(***************************************************************************)
pad_token_text == << "<", "p", "a", "d", ">" >>

WordChars ==
    {
      "a", "b", "c", "d", "e", "f", "g", "h", "i", "j", "k", "l", "m",
      "n", "o", "p", "q", "r", "s", "t", "u", "v", "w", "x", "y", "z",
      "A", "B", "C", "D", "E", "F", "G", "H", "I", "J", "K", "L", "M",
      "N", "O", "P", "Q", "R", "S", "T", "U", "V", "W", "X", "Y", "Z",
      "0", "1", "2", "3", "4", "5", "6", "7", "8", "9", "_" }

WhiteSpace == { " ", "\t", "\n", "\r", "\f" }

StartsWith(text, prefix) ==
    /\ Len(prefix) <= Len(text)
    /\ SubSeq(text, 1, Len(prefix)) = prefix

\* str.replace(old, ""): the occurrences of old, left to right, are dropped
RECURSIVE str_remove(_, _)
str_remove(text, old) ==
    IF text = << >> THEN << >>
    ELSE IF StartsWith(text, old)
         THEN str_remove(SubSeq(text, Len(old) + 1, Len(text)), old)
         ELSE << Head(text) >> \o str_remove(Tail(text), old)

\* length of the longest run of word characters of text from position k on
RECURSIVE WordRun(_, _)
WordRun(text, k) ==
    IF k <= Len(text) /\ text[k] \in WordChars THEN 1 + WordRun(text, k + 1) ELSE 0

\* length of the match of the pattern at the start of text, 0 for no match:
\* "<s_", one or more word characters, ">", one whitespace character
MatchLen(text) ==
    IF StartsWith(text, << "<", "s", "_" >>)
    THEN LET n == WordRun(text, 4)
         IN  IF /\ n >= 1
                /\ 3 + n + 2 <= Len(text)
                /\ text[3 + n + 1] = ">"
                /\ text[3 + n + 2] \in WhiteSpace
             THEN 3 + n + 2
             ELSE 0
    ELSE 0

\* re.sub(pattern, r"\1", text): each match, left to right and without
\* overlap, is replaced by its group, the match less its last character
RECURSIVE pattern_sub(_)
pattern_sub(text) ==
    IF text = << >> THEN << >>
    ELSE LET m == MatchLen(text)
         IN  IF m > 0
             THEN SubSeq(text, 1, m - 1) \o pattern_sub(SubSeq(text, m + 1, Len(text)))
             ELSE << Head(text) >> \o pattern_sub(Tail(text))

canonicalize(text) == pattern_sub(str_remove(text, pad_token_text))

\* token texts a decoded sequence is joined from
Pieces ==
    { << "<", "s", "_", "c", "o", "m", "p", "a", "n", "y", ">" >>,
      << "<", "/", "s", "_", "c", "o", "m", "p", "a", "n", "y", ">" >>,
      << "<", "p", "a", "d", ">" >>,
      << " " >>,
      << "A" >>,
      << "<", "p", "a" >>,
      << "d", ">" >> }

\* the raw text of the detokenizer scenario
ScenarioText ==
    << "<", "s", "_", "c", "o", "m", "p", "a", "n", "y", ">", " ",
       "A", "C", "M", "E", " ", "<", "/", "s", "_", "c", "o", "m",
       "p", "a", "n", "y", ">", " ", "<", "p", "a", "d", ">", "<",
       "p", "a", "d", ">" >>

RECURSIVE Joined(_)
Joined(n) ==
    IF n = 0 THEN { << >> }
    ELSE LET shorter == Joined(n - 1)
         IN  shorter \cup { q \o x : q \in shorter, x \in Pieces }

InitText ==
    /\ Constructed
    /\ NoEval
    /\ pc = "decoded"
    /\ max_length = MaxLength
    /\ decoded \in Joined(MaxPieces) \cup { ScenarioText }
    /\ prediction = << >>
    /\ again = << >>
    /\ NoGeneration
    /\ NoData

\* the loop body of Model.inference for one decoded sequence
PostProcess ==
    /\ pc = "decoded"
    /\ prediction' = canonicalize(decoded)
    /\ pc' = "predicted"
    /\ UNCHANGED <<vocab, max_length, decoded, again, genVars, dataVars, tokVars, evalVars>>

\* the same post-processing run on a prediction
PostProcessAgain ==
    /\ pc = "predicted"
    /\ again' = canonicalize(prediction)
    /\ pc' = "repeated"
    /\ UNCHANGED <<vocab, max_length, decoded, prediction, genVars, dataVars, tokVars, evalVars>>

NextText ==
    \/ PostProcess
    \/ PostProcessAgain

SpecText == InitText /\ [][NextText]_vars

(***************************************************************************)
(* Model.validation_step, the scores: for every pair of a prediction and   *)
(* its answer, edit_distance(pred, answer) / max(len(pred), len(answer)),  *)
(* then the average of the batch.  Texts are sequences of characters; a    *)
(* score is the fraction <<numerator, denominator>>, a division by zero    *)
(* raises ZeroDivisionError.                                               *)
(***************************************************************************)
max(a, b) == IF a >= b THEN a ELSE b

min(a, b, c) == IF a <= b /\ a <= c THEN a ELSE IF b <= c THEN b ELSE c

substitution_cost == 1

\* variant: a substitution costs as much as a deletion and an insertion
RECURSIVE edit_distance_costly(_, _)
edit_distance_costly(s1, s2) ==
    IF s1 = << >> THEN Len(s2)
    ELSE IF s2 = << >> THEN Len(s1)
    ELSE LET front1 == SubSeq(s1, 1, Len(s1) - 1)
             front2 == SubSeq(s2, 1, Len(s2) - 1)
         IN  min(edit_distance_costly(front1, s2) + 1,
                 edit_distance_costly(s1, front2) + 1,
                 edit_distance_costly(front1, front2)
                     + (IF s1[Len(s1)] = s2[Len(s2)] THEN 0 ELSE 2))

\* nltk.edit_distance with its defaults: Levenshtein distance, the cell
\* (i, j) of its table from the cells (i-1, j), (i, j-1) and (i-1, j-1)
RECURSIVE edit_distance(_, _)
edit_distance(s1, s2) ==
    IF s1 = << >> THEN Len(s2)
    ELSE IF s2 = << >> THEN Len(s1)
    ELSE LET front1 == SubSeq(s1, 1, Len(s1) - 1)
             front2 == SubSeq(s2, 1, Len(s2) - 1)
         IN  min(edit_distance(front1, s2) + 1,
                 edit_distance(s1, front2) + 1,
                 edit_distance(front1, front2)
                     + (IF s1[Len(s1)] = s2[Len(s2)] THEN 0 ELSE substitution_cost))

\* the exception the division of one pair raises, "none" when it raises nothing
ScoreError(pred, answer) ==
    IF max(Len(pred), Len(answer)) = 0 THEN "ZeroDivisionError" ELSE "none"

score(pred, answer) == << edit_distance(pred, answer), max(Len(pred), Len(answer)) >>

\* sum(scores), as a fraction
RECURSIVE sum(_)
sum(fs) ==
    IF fs = << >> THEN << 0, 1 >>
    ELSE LET rest == sum(Tail(fs))
         IN  << Head(fs)[1] * rest[2] + rest[1] * Head(fs)[2], Head(fs)[2] * rest[2] >>

average_score(fs) == << sum(fs)[1], sum(fs)[2] * Len(fs) >>

\* the pairs the loop scores before it ends: all of them, or those before
\* the first pair whose division raises
Scored(preds, answers) ==
    IF \E i \in DOMAIN preds : ScoreError(preds[i], answers[i]) # "none"
    THEN (CHOOSE i \in DOMAIN preds :
            /\ ScoreError(preds[i], answers[i]) # "none"
            /\ \A j \in 1..(i - 1) : ScoreError(preds[j], answers[j]) = "none") - 1
    ELSE Len(preds)

ScoreChars == { "a", "b" }

ScoreTexts == SeqsUpTo(ScoreChars, MaxTextLen)

InitScore ==
    /\ Constructed
    /\ pc = "validate"
    /\ max_length = MaxLength
    /\ \E n \in 1..BatchSize :
          /\ predictions \in [1..n -> ScoreTexts]
          /\ targets \in [1..n -> ScoreTexts]
    /\ score_list = << >>
    /\ validation_step_scores = << >>
    /\ NoGeneration
    /\ NoData
    /\ NoText

\* Model.validation_step from the loop over the pairs on
ValidationStep ==
    /\ pc = "validate"
    /\ score_list' = [i \in 1..Scored(predictions, targets) |-> score(predictions[i], targets[i])]
    /\ IF Scored(predictions, targets) < Len(predictions)
       THEN /\ error' = "ZeroDivisionError"
            /\ validation_step_scores' = validation_step_scores
            /\ pc' = "raised"
       ELSE /\ error' = error
            /\ validation_step_scores' = Append(validation_step_scores, average_score(score_list'))
            /\ pc' = "scored"
    /\ UNCHANGED <<vocab, max_length, predictions, targets, special_token_ids, input_ids, scores, unfinished_sequences, dataVars, textVars, tokVars>>

NextScore == ValidationStep

SpecScore == InitScore /\ [][NextScore]_vars

(***************************************************************************)
(* The tag grammar as the specification states it, for the properties.     *)
(***************************************************************************)
\* the order of the structural tags, start to end, close(total) left out
TagOrder ==
    << "<s>", "<s_company>", "</s_company>", "<s_date>", "</s_date>",
       "<s_address>", "</s_address>", "<s_total>", "</s>" >>

\* the ten tags of the grammar
GrammarTags == Range(TagOrder) \cup { "</s_total>" }

\* the table of the grammar: each tag but the last of TagOrder is followed
\* by the next one
LegalNext(tag) ==
    { TagOrder[k + 1] : k \in { k \in 1..(Len(TagOrder) - 1) : TagOrder[k] = tag } }

FieldOrder == SubSeq(TagOrder, 2, Len(TagOrder) - 1)

\* texts that carry a field tag: the eight field tags and the registered
\* token that holds close(total)
FieldTagTexts == (GrammarTags \ { "<s>", "</s>" }) \cup { "</s_total></s>" }

TokenOf(id) == convert_ids_to_tokens(vocab, id)

IsFieldTagId(id) == TokenOf(id) \in FieldTagTexts

IsGrammarId(id) == TokenOf(id) \in GrammarTags

IsTrackedId(id) == id \in Range(special_token_ids)

EmittedFieldTags(ids) ==
    LET kept == SelectSeq(ids, IsFieldTagId)
    IN  [k \in DOMAIN kept |-> TokenOf(kept[k])]

\* the last tag of the grammar in ids, "none" when there is none
LastGrammarTag(ids) ==
    LET hits == { k \in DOMAIN ids : IsGrammarId(ids[k]) }
    IN  IF hits = {} THEN "none"
        ELSE TokenOf(ids[CHOOSE k \in hits : \A m \in hits : m <= k])

TextId == convert_tokens_to_ids(vocab, TextTokens[1])

\* the mask has just run on the scores of the step
Masked == pc = "penalty"

(***************************************************************************)
(* C1: in every row of a generation run, at every moment, the field tags   *)
(* emitted so far, free-text ids ignored, are a prefix of <s_company>,     *)
(* </s_company>, <s_date>, </s_date>, <s_address>, </s_address>,           *)
(* <s_total>: none is repeated, skipped or out of order.                   *)
(***************************************************************************)
C1_FieldTagsInOrder ==
    \A r \in Rows :
        LET emitted == EmittedFieldTags(input_ids[r])
        IN  /\ input_ids[r][1] = bos_token_id
            /\ Len(emitted) <= Len(FieldOrder)
            /\ \A k \in DOMAIN emitted : emitted[k] = FieldOrder[k]

\* a row has emitted the seven field tags, with a free-text id among them
C1_Witness ==
    \E r \in Rows :
        /\ EmittedFieldTags(input_ids[r]) = FieldOrder
        /\ TextId \in Range(input_ids[r])

(***************************************************************************)
(* C2: the end sentinel </s> is selected in a row only when the last       *)
(* structural tag of the row is <s_total>.                                 *)
(***************************************************************************)
C2_EndOnlyAfterTotal ==
    \A r \in Rows :
        \A k \in DOMAIN input_ids[r] :
            input_ids[r][k] = eos_token_id =>
                LastGrammarTag(SubSeq(input_ids[r], 1, k - 1)) = "<s_total>"

(***************************************************************************)
(* C3: after a mask step, in every row, every id of a structural tag that  *)
(* is not a legal successor of the row's last tag has score negative       *)
(* infinity, so that the best-scored structural id is the legal successor; *)
(* for last tag </s_company> that is <s_date>.                             *)
(***************************************************************************)
\* the structural id of the best score of a row
BestGrammarId(row_scores) ==
    CHOOSE id \in { t \in DOMAIN row_scores : IsGrammarId(t) } :
        \A u \in { t \in DOMAIN row_scores : IsGrammarId(t) } :
            /\ row_scores[u] <= row_scores[id]
            /\ row_scores[u] = row_scores[id] => id <= u

C3_IllegalTagsMasked ==
    Masked =>
        \A r \in Rows :
            /\ \A id \in Vocab(vocab) :
                  (IsGrammarId(id) /\ TokenOf(id) \notin LegalNext(LastGrammarTag(input_ids[r])))
                      => scores[r][id] = NegInf
            /\ LastGrammarTag(input_ids[r]) = "</s_company>"
                  => TokenOf(BestGrammarId(scores[r])) = "<s_date>"

(***************************************************************************)
(* C4: the candidate-tag lookup is exactly the table of the grammar: its   *)
(* keys are the eight tags start .. open(total), each entry is a list of   *)
(* one tag, the successor; and the special ids a mask step leaves          *)
(* unmasked in a row are those of the entry of the row's last tag.         *)
(***************************************************************************)
C4_CandidateTable ==
    /\ DOMAIN CandidateTable = { TagOrder[k] : k \in 1..(Len(TagOrder) - 1) }
    /\ \A k \in 1..(Len(TagOrder) - 1) :
          _candidate_tags(TagOrder[k]) = << TagOrder[k + 1] >>
    /\ Masked =>
          \A r \in Rows :
              { id \in Range(special_token_ids) : scores[r][id] # NegInf }
                  = { id \in Range(special_token_ids) :
                        TokenOf(id) \in LegalNext(_last_tag(input_ids[r])) }

\* the mask has run on a row whose last tag is the last key of the table
C4_Witness ==
    /\ Masked
    /\ \E r \in Rows : _last_tag(input_ids[r]) = "<s_total>"

(***************************************************************************)
(* C5: in every state of a generation run, for every row, rows that have   *)
(* ended included, the last tag of the row is found and has a non-empty    *)
(* entry in the lookup; the mask call never raises.                        *)
(***************************************************************************)
C5_LookupSucceeds ==
    /\ pc # "raised"
    /\ error = "none"
    /\ \A r \in Rows :
          /\ _last_tag(input_ids[r]) # NoTag
          /\ HasCandidates(_last_tag(input_ids[r]))
          /\ _candidate_tags(_last_tag(input_ids[r])) # << >>

\* the mask has run on a batch with a row that ended with the end sentinel
\* and received padding since, while another row is still live
C5_Witness ==
    /\ Masked
    /\ \E r, q \in Rows :
          /\ unfinished_sequences[r] = 0
          /\ eos_token_id \in Range(input_ids[r])
          /\ input_ids[r][Len(input_ids[r])] = pad_token_id(vocab)
          /\ unfinished_sequences[q] = 1

(***************************************************************************)
(* C6: a mask step leaves the id sequences alone and changes no score of   *)
(* an id that is no structural id (neither tracked by the scorer nor a     *)
(* tag of the grammar) or that is a legal successor of the row's last tag. *)
(***************************************************************************)
C6_MaskFrame ==
    [][ pc = "mask" =>
          /\ input_ids' = input_ids
          /\ \A r \in Rows :
                \A id \in Vocab(vocab) :
                    ( \/ ~IsTrackedId(id) /\ ~IsGrammarId(id)
                      \/ TokenOf(id) \in LegalNext(LastGrammarTag(input_ids[r])) )
                        => scores'[r][id] = scores[r][id] ]_vars

\* after a mask step a free-text id still holds the hot raw score while the
\* start tag is masked
C6_Witness ==
    /\ Masked
    /\ \E r \in Rows :
          /\ scores[r][TextId] = Hot
          /\ scores[r][bos_token_id] = NegInf

(***************************************************************************)
(* C7: the tags registered in the vocabulary and tracked by the scorer are *)
(* exactly the ten tags of the grammar, each with an id of its own; in     *)
(* particular </s_total> and </s> are two separate tracked tags.           *)
(***************************************************************************)
C7_TenTags ==
    pc # "construct" =>
        /\ Range(special_tokens) = GrammarTags
        /\ GrammarTags \subseteq Range(vocab)
        /\ Cardinality(Range(InitSpecialTokenIds(vocab))) = Cardinality(GrammarTags)

(***************************************************************************)
(* C8: the label tensor has exactly max_length entries; entry i is -100    *)
(* where the target, cut on the right to max_length and filled with the    *)
(* padding id, holds the padding id, and is that id elsewhere; when the    *)
(* target holds no padding id the entries other than -100 number           *)
(* min(token count, max_length); an over-length target is encoded.         *)
(***************************************************************************)
Min(a, b) == IF a <= b THEN a ELSE b

SourceId(k) == IF k <= Len(target) THEN target[k] ELSE pad_token_id(vocab)

C8_LabelTensor ==
    pc = "encoded" =>
        /\ Len(labels) = max_length
        /\ \A k \in 1..max_length :
              labels[k] = IF SourceId(k) = pad_token_id(vocab) THEN -100 ELSE SourceId(k)
        /\ pad_token_id(vocab) \notin Range(target) =>
              Cardinality({ k \in DOMAIN labels : labels[k] # -100 })
                  = Min(Len(target), max_length)

\* an over-length target without padding ids has been encoded
C8_Witness ==
    /\ pc = "encoded"
    /\ Len(target) > max_length
    /\ pad_token_id(vocab) \notin Range(target)
    /\ Len(labels) = max_length

(***************************************************************************)
(* C9: Receipt.xml is the start sentinel, then for company, date, address, *)
(* total in this order the open tag, the field text and the close tag,     *)
(* then the end sentinel, whatever the field values; the receipt ACME,     *)
(* 2024-01-01, "", 10.00 gives the string of the scenario.                 *)
(***************************************************************************)
Fields == << "company", "date", "address", "total" >>

RECURSIVE TaggedFields(_, _)
TaggedFields(r, fs) ==
    IF fs = << >> THEN ""
    ELSE ("<s_" \o Head(fs) \o ">") \o r[Head(fs)] \o ("</s_" \o Head(fs) \o ">")
         \o TaggedFields(r, Tail(fs))

ScenarioReceipt ==
    [company |-> "ACME", date |-> "2024-01-01", address |-> "", total |-> "10.00"]

C9_Serialization ==
    pc = "serialized" =>
        /\ xml = "<s>" \o TaggedFields(receipt, Fields) \o "</s>"
        /\ receipt = ScenarioReceipt =>
              xml = "<s><s_company>ACME</s_company><s_date>2024-01-01</s_date><s_address></s_address><s_total>10.00</s_total></s>"

\* the receipt of the scenario, with its empty address, has been serialized
C9_Witness ==
    /\ pc = "serialized"
    /\ receipt = ScenarioReceipt
    /\ xml # ""

(***************************************************************************)
(* C10: post-processing is idempotent: processing a prediction once more   *)
(* returns the prediction.                                                 *)
(***************************************************************************)
C10_Idempotent ==
    pc = "repeated" => again = prediction

(***************************************************************************)
(* C11: a prediction holds no occurrence of the text of the padding token  *)
(* and no structural tag, open or close, that is followed by a space; the  *)
(* raw text "<s_company> ACME </s_company> <pad><pad>" gives               *)
(* "<s_company>ACME</s_company>".                                          *)
(***************************************************************************)
\* the ten tags of the grammar, by character
GrammarTagTexts ==
    { << "<", "s", ">" >>,
      << "<", "s", "_", "c", "o", "m", "p", "a", "n", "y", ">" >>,
      << "<", "/", "s", "_", "c", "o", "m", "p", "a", "n", "y", ">" >>,
      << "<", "s", "_", "d", "a", "t", "e", ">" >>,
      << "<", "/", "s", "_", "d", "a", "t", "e", ">" >>,
      << "<", "s", "_", "a", "d", "d", "r", "e", "s", "s", ">" >>,
      << "<", "/", "s", "_", "a", "d", "d", "r", "e", "s", "s", ">" >>,
      << "<", "s", "_", "t", "o", "t", "a", "l", ">" >>,
      << "<", "/", "s", "_", "t", "o", "t", "a", "l", ">" >>,
      << "<", "/", "s", ">" >> }

Contains(text, part) ==
    \E k \in 1..(Len(text) - Len(part) + 1) :
        SubSeq(text, k, k + Len(part) - 1) = part

ScenarioCanonical ==
    << "<", "s", "_", "c", "o", "m", "p", "a", "n", "y", ">", "A",
       "C", "M", "E", "<", "/", "s", "_", "c", "o", "m", "p", "a",
       "n", "y", ">" >>

C11_Canonical ==
    pc = "predicted" =>
        /\ ~Contains(prediction, pad_token_text)
        /\ \A tag \in GrammarTagTexts : ~Contains(prediction, tag \o << " " >>)
        /\ decoded = ScenarioText => prediction = ScenarioCanonical

(***************************************************************************)
(* C12: when a prediction and its answer are both the empty text, the      *)
(* score of the pair is the value 0: validation_step raises no exception   *)
(* and every pair of the batch is scored.                                  *)
(***************************************************************************)
C12_EmptyPairScoresZero ==
    pc \in { "scored", "raised" } =>
        /\ error = "none"
        /\ Len(score_list) = Len(predictions)
        /\ \A i \in DOMAIN predictions :
              (predictions[i] = << >> /\ targets[i] = << >>) => score_list[i][1] = 0

(***************************************************************************)
(* C13: the score of a pair of texts that are not both empty lies between  *)
(* 0 and 1, is 0 for a text and itself, and is the score of the pair       *)
(* taken the other way round.                                              *)
(***************************************************************************)
C13_ScoreProperties ==
    \A i \in DOMAIN score_list :
        LET a == predictions[i]
            b == targets[i]
            s == score_list[i]
        IN  /\ s[2] > 0
            /\ 0 <= s[1] /\ s[1] <= s[2]
            /\ a = b => s[1] = 0
            /\ s = score(b, a)
            /\ \A j \in DOMAIN score_list :
                  (predictions[j] = b /\ targets[j] = a) => score_list[j] = s

\* a batch of two different texts, scored one way and the other way round
C13_Witness ==
    /\ pc = "scored"
    /\ Len(score_list) = 2
    /\ predictions[1] # targets[1]
    /\ predictions[2] = targets[1]
    /\ targets[2] = predictions[1]
    /\ score_list[1][1] > 0

(***************************************************************************)
(* C14: a registration adds to the vocabulary exactly the tags of the      *)
(* grammar it does not hold yet, after the entries it holds, and returns   *)
(* their number; the embeddings are resized exactly when that number is    *)
(* positive; a registration run on the result returns 0 and adds nothing.  *)
(***************************************************************************)
C14_RegistrationIdempotent ==
    [][ pc = "construct" =>
          /\ Range(vocab') = Range(vocab) \cup GrammarTags
          /\ SubSeq(vocab', 1, Len(vocab)) = vocab
          /\ newly_added_num(vocab) = Cardinality(GrammarTags \ Range(vocab))
          /\ Len(vocab') = Len(vocab) + newly_added_num(vocab)
          /\ resize_calls' = resize_calls + (IF newly_added_num(vocab) > 0 THEN 1 ELSE 0)
      ]_vars
    /\ [](pc = "idle" => (newly_added_num(vocab) = 0 /\ RegisterTags(vocab) = vocab))

(***************************************************************************)
(* C15: when a row of the batch holds no tracked tag id, or the last tag   *)
(* of a row is no key of the lookup, the mask call is left by the          *)
(* exception (StopIteration, KeyError) and returns nothing; the row is     *)
(* not masked by some default set of allowed tags.                         *)
(***************************************************************************)
C15_FatalErrorsPropagate ==
    [][ pc = "mask" =>
          LET bad == { r \in Rows :
                         \/ _last_tag(input_ids[r]) = NoTag
                         \/ ~HasCandidates(_last_tag(input_ids[r])) }
              first == CHOOSE r \in bad : \A q \in bad : r <= q
          IN  bad # {} =>
                /\ pc' = "raised"
                /\ error' = IF _last_tag(input_ids[first]) = NoTag
                            THEN "StopIteration" ELSE "KeyError"
                /\ \A r \in bad : scores'[r] = scores[r]
      ]_vars

\* the call was left by the KeyError of the second row, whose last tag is
\* the token that holds close(total), after the first row was masked
C15_Witness ==
    /\ pc = "raised"
    /\ error = "KeyError"
    /\ Len(input_ids) = 2
    /\ RowError(input_ids[1]) = "none"
    /\ _last_tag(input_ids[2]) = "</s_total></s>"

(***************************************************************************)
(* C16: the ids of a canonical tagged string are a sequence the masked     *)
(* decoder can emit: its structural ids are those of the ten tags in       *)
(* order, and each structural id after the first is a legal successor of   *)
(* the last structural tag before it and is not among the ids the mask     *)
(* step forbids after the ids before it.                                   *)
(***************************************************************************)
IsStructuralId(id) == IsTrackedId(id) \/ IsGrammarId(id)

C16_TargetIsEmittable ==
    pc = "serialized" =>
        /\ target[1] = bos_token_id
        /\ \A k \in 2..Len(target) :
              IsStructuralId(target[k]) =>
                  LET before == SubSeq(target, 1, k - 1)
                  IN  /\ TokenOf(target[k]) \in LegalNext(LastGrammarTag(before))
                      /\ RowError(before) = "none"
                      /\ target[k] \notin forbidden(before)
        /\ receipt = ScenarioReceipt =>
              [k \in DOMAIN SelectSeq(target, IsStructuralId) |->
                  TokenOf(SelectSeq(target, IsStructuralId)[k])]
                = SubSeq(TagOrder, 1, 8) \o << "</s_total>", "</s>" >>

(***************************************************************************)
(* C17: in every generation step the mask is the pass that leads to the    *)
(* selection, the repetition penalty having run before it, and when the    *)
(* selection begins every id of a tag of the grammar that is no legal      *)
(* successor of the row's last tag has score negative infinity.            *)
(***************************************************************************)
C17_MaskIsLastPass ==
    [][ pc' = "select" =>
          /\ pc = "mask"
          /\ \A r \in Rows :
                \A id \in Vocab(vocab) :
                    ( /\ IsGrammarId(id)
                      /\ TokenOf(id) \notin LegalNext(LastGrammarTag(input_ids[r])) )
                        => scores'[r][id] = NegInf
      ]_vars

(***************************************************************************)
(* C18: a mask call that returns leaves in every row the scores a call on  *)
(* that row alone leaves, whatever the other rows hold; the rows taken in  *)
(* the reverse order give the same scores; rows with the same ids and      *)
(* scores get the same scores; the call changes neither the id sequences   *)
(* nor the ids the scorer tracks nor the vocabulary.                       *)
(***************************************************************************)
ReverseOrder(n) == [k \in 1..n |-> n + 1 - k]

C18_RowsIndependent ==
    [][ (pc = "mask" /\ pc' = "penalty") =>
          /\ \A r \in Rows :
                scores'[r] = call_rows(<< 1 >>, << input_ids[r] >>, << scores[r] >>)[1]
          /\ scores' = call_rows(ReverseOrder(Len(input_ids)), input_ids, scores)
          /\ \A r, q \in Rows :
                (input_ids[r] = input_ids[q] /\ scores[r] = scores[q])
                    => scores'[r] = scores'[q]
          /\ input_ids' = input_ids
          /\ special_token_ids' = special_token_ids
          /\ vocab' = vocab
      ]_vars

\* a returned call on two rows whose last tags differ, in a step after the
\* first of the run
C18_Witness ==
    /\ Masked
    /\ Len(input_ids) = 2
    /\ Len(input_ids[1]) > 2
    /\ _last_tag(input_ids[1]) # _last_tag(input_ids[2])
    /\ scores[1] # scores[2]

(***************************************************************************)
(* C19: for every row that holds a structural tag id, _last_tag gives the  *)
(* tag of the structural id at the greatest index of the row, whatever     *)
(* follows it and whatever structural ids come before it.                  *)
(***************************************************************************)
C19_LastTagIsMostRecent ==
    \A r \in Rows :
        LastGrammarTag(input_ids[r]) # "none" =>
            _last_tag(input_ids[r]) = LastGrammarTag(input_ids[r])

(***************************************************************************)
(* C20: every generation run ends; in every step every row receives one    *)
(* id; a row ends only with the end sentinel or at the maximum length, the *)
(* run ends only when every row has ended, and no row is ever longer than  *)
(* the maximum length.                                                     *)
(***************************************************************************)
C20_RunTerminates ==
    /\ [](\A r \in Rows : Len(input_ids[r]) <= max_length)
    /\ [][ pc = "select" =>
              /\ \A r \in Rows :
                    /\ Len(input_ids'[r]) = Len(input_ids[r]) + 1
                    /\ (unfinished_sequences[r] = 1 /\ unfinished_sequences'[r] = 0) =>
                          \/ input_ids'[r][Len(input_ids'[r])] = eos_token_id
                          \/ Len(input_ids'[r]) = max_length
              /\ pc' = "done" <=> \A r \in Rows : unfinished_sequences'[r] = 0
        ]_vars
    /\ (pc = "forward" ~> pc = "done")

\* a run has ended with a row that reached the maximum length without the
\* end sentinel and a row that ended with the end sentinel before
C20_Witness ==
    /\ pc = "done"
    /\ \E r, q \in Rows :
          /\ Len(input_ids[r]) = max_length
          /\ eos_token_id \notin Range(input_ids[r])
          /\ eos_token_id \in Range(SubSeq(input_ids[q], 1, 3))

====
